---- MODULE Spec2Model ----
(***************************************************************************)
(* Verification model of the two optimisation stages of the Accra public   *)
(* transport repository:                                                   *)
(*   scripts/schedule_optimizer.py  ScheduleOptimizer (PuLP integer        *)
(*                                  program over buses per route/period)   *)
(*   scripts/route_optimizer.py     RouteOptimizer (OR-Tools single        *)
(*                                  vehicle routing per route)             *)
(* Times are minutes, demands passengers, distances metres.                *)
(***************************************************************************)
EXTENDS Integers, Sequences, FiniteSets, TLC

(***************************************************************************)
(* Bounds of the model and the input values it enumerates.                 *)
(***************************************************************************)
NumStops == 2

RouteIds == {"R1", "R2"}

RouteSets == {{"R1"}, {"R1", "R2"}}

DemandValues == {0, 45, 95, 300}

TripTimes == {20, 40, 60}

Capacities == {50, 100}

Headways == {<<5, 30>>, <<10, 20>>}

FleetRequests == {10, 50}

(***************************************************************************)
(* State.                                                                  *)
(*   request        the caller's ScheduleOptimizationRequest               *)
(*   schedule_data  the dict handed to optimize_schedules                  *)
(*   results        the dict optimize_schedules returns                    *)
(*   gtfs, report   what generate_optimized_gtfs / create_schedule_report  *)
(*                  returned and wrote                                     *)
(*   spc            position of the schedule caller                        *)
(*   route_in       the arguments of one optimize_route call               *)
(*   route_out      what that call returned                                *)
(*   rpc            position of the route caller                           *)
(*   net_in         the route rows optimize_network loads and whether it   *)
(*                  was given demand_data                                  *)
(*   net_i          the row the loop of optimize_network is at             *)
(*   optimized_routes, total_distance_saved, original_total_distance       *)
(*                  the accumulators of that loop (distances in metres)    *)
(*   net_out        what optimize_network returned                         *)
(*   npc            position of optimize_network                           *)
(*   full_data_with_demand  result of the pipeline's prediction step       *)
(*   pipe_out       what run_pipeline returned                             *)
(*   ppc            position of run_pipeline                               *)
(*   schedule_results  the module-level dict of the API                    *)
(*   api_task       the background task of POST /optimize/schedules        *)
(*   post_answer    the last answer of POST /optimize/schedules            *)
(*   get_answer     the last answer of GET /results/schedules              *)
(*   polls          how many times GET /results/schedules was asked        *)
(*   stages         current_stage of every version of the registered model *)
(*   call_log       the rollback_model calls made so far                   *)
(***************************************************************************)
VARIABLES request, schedule_data, results, gtfs, report, spc,
          route_in, route_out, rpc,
          net_in, net_i, optimized_routes, total_distance_saved,
          original_total_distance, net_out, npc,
          full_data_with_demand, pipe_out, ppc,
          schedule_results, api_task, post_answer, get_answer, polls,
          stages, call_log

svars == <<request, schedule_data, results, gtfs, report, spc>>

rvars == <<route_in, route_out, rpc>>

nvars == <<net_in, net_i, optimized_routes, total_distance_saved,
           original_total_distance, net_out, npc>>

pvars == <<full_data_with_demand, pipe_out, ppc>>

avars == <<schedule_results, api_task, post_answer, get_answer, polls>>

mvars == <<stages, call_log>>

vars == <<svars, rvars, nvars, pvars, avars, mvars>>

(***************************************************************************)
(* Small arithmetic helpers.                                               *)
(***************************************************************************)
Max2(a, b) == IF a >= b THEN a ELSE b

SetMax(S) == CHOOSE m \in S : \A k \in S : k <= m

\* int(np.ceil(a / b)) for a >= 0, b > 0
CeilDiv(a, b) == (a + b - 1) \div b

\* int(a / b) for a >= 0, b > 0
TruncDiv(a, b) == a \div b

RECURSIVE SumOver(_, _)
SumOver(f, S) ==
    IF S = {} THEN 0
    ELSE LET c == CHOOSE c \in S : TRUE
         IN  f[c] + SumOver(f, S \ {c})

EmptyDict == [k \in {} |-> 0]

(***************************************************************************)
(* ScheduleOptimizer.optimize_schedules                                    *)
(***************************************************************************)
time_periods == {"morning_peak", "midday", "afternoon_peak", "evening", "night"}

\* lowBound of the LpVariable "buses"
LowBound == 1

\* the fleet size the function fixes for itself
max_fleet_size == 50

Cells(sd) == sd.routes \X time_periods

\* max(schedule_data['demand_patterns'][r][t].values())
max_demand(sd, r, t) ==
    SetMax({sd.demand_patterns[r][t][s] : s \in DOMAIN sd.demand_patterns[r][t]})

\* variant: the demand bound rounded down instead of up
min_buses_needed_floor(sd, r, t) ==
    Max2(1, max_demand(sd, r, t) \div sd.vehicle_capacity)

min_buses_needed(sd, r, t) ==
    Max2(1, CeilDiv(max_demand(sd, r, t), sd.vehicle_capacity))

\* variant: the maximum-headway bound rounded down instead of up
min_buses_for_headway_floor(sd, r, t) ==
    Max2(1, sd.route_info[r].avg_trip_time \div sd.max_headway)

min_buses_for_headway(sd, r, t) ==
    Max2(1, CeilDiv(sd.route_info[r].avg_trip_time, sd.max_headway))

max_buses_for_headway(sd, r, t) ==
    TruncDiv(sd.route_info[r].avg_trip_time, sd.min_headway)

\* the variable bound and the rows "demand_r_t", "headway_max_r_t" and
\* "headway_min_r_t" that prob holds for the variable x[r, t]
CellRowsHold(sd, r, t, v) ==
    /\ v >= LowBound
    /\ v >= min_buses_needed(sd, r, t)
    /\ v >= min_buses_for_headway(sd, r, t)
    /\ v <= max_buses_for_headway(sd, r, t)

\* variant: the fleet row left out of the problem
FleetRowDropped(sd, x) == TRUE

\* the "fleet_size" row
FleetRowHolds(sd, x) == SumOver(x, Cells(sd)) <= max_fleet_size

\* x satisfies the variable bounds and every row of prob
Feasible(sd, x) ==
    /\ \A c \in Cells(sd) : CellRowsHold(sd, c[1], c[2], x[c])
    /\ FleetRowHolds(sd, x)

\* variant: the "headway_max" rows left out of the problem
CellLowerDemandOnly(sd, r, t) == Max2(LowBound, min_buses_needed(sd, r, t))

\* variant: neither lowBound nor the floors of 1, only the raw demand need
CellLowerNoFloor(sd, r, t) == CeilDiv(max_demand(sd, r, t), sd.vehicle_capacity)

\* the tightest lower bound the ">=" rows and lowBound put on x[r, t]
CellLower(sd, r, t) ==
    Max2(LowBound, Max2(min_buses_needed(sd, r, t),
                        min_buses_for_headway(sd, r, t)))

\* variant: the "headway_min" rows left out, the fleet row alone capping a cell
CellUpperNoMinHeadway(sd, r, t) == max_fleet_size

\* the upper bound the "<=" row puts on x[r, t]
CellUpper(sd, r, t) == max_buses_for_headway(sd, r, t)

\* variant: the problem built with LpMaximize
LpSolveMaximize(sd) ==
    LET cells == Cells(sd)
        lb == [c \in cells |-> CellLower(sd, c[1], c[2])]
        ub == [c \in cells |-> CellUpper(sd, c[1], c[2])]
    IN  IF /\ \A c \in cells : lb[c] <= ub[c]
           /\ FleetRowHolds(sd, lb)
        THEN IF FleetRowHolds(sd, ub)
             THEN [status |-> "Optimal", x |-> ub,
                   objective |-> {SumOver(ub, cells)}]
             ELSE [status |-> "Optimal", x |-> lb,
                   objective |-> {SumOver(lb, cells)}]
        ELSE [status |-> "Infeasible", x |-> lb,
              objective |-> {0, SumOver(lb, cells)}]

\* prob.solve(PULP_CBC_CMD(msg=False)).  Every row but "fleet_size" bounds a
\* single variable and the objective is the plain sum, so the integer
\* program has the single optimum x = tightest lower bounds whenever those
\* fit under the upper bounds and the fleet row, and no feasible point
\* otherwise.  The objective value of an infeasible problem is whatever the
\* solver left behind.
LpSolve(sd) ==
    LET cells == Cells(sd)
        lb == [c \in cells |-> CellLower(sd, c[1], c[2])]
        total == SumOver(lb, cells)
    IN  IF /\ \A c \in cells : lb[c] <= CellUpper(sd, c[1], c[2])
           /\ FleetRowHolds(sd, lb)
        THEN [status |-> "Optimal", x |-> lb, objective |-> {total}]
        ELSE [status |-> "Infeasible", x |-> lb, objective |-> {0, total}]

\* float('inf') as a fraction
Infinity == [num |-> 1, den |-> 0]

\* results['route_schedules'] of an optimal solve; a headway is the fraction
\* avg_trip_time / buses
RouteSchedules(sd, x) ==
    [r \in sd.routes |->
       [t \in time_periods |->
          [buses      |-> x[<<r, t>>],
           headway    |-> IF x[<<r, t>>] > 0
                          THEN [num |-> sd.route_info[r].avg_trip_time,
                                den |-> x[<<r, t>>]]
                          ELSE Infinity,
           capacity   |-> x[<<r, t>>] * sd.vehicle_capacity,
           max_demand |-> max_demand(sd, r, t)]]]

Summary(sd, rs) ==
    LET buses == [c \in Cells(sd) |-> rs[c[1]][c[2]].buses]
        cap   == [c \in Cells(sd) |-> rs[c[1]][c[2]].capacity]
        dem   == [c \in Cells(sd) |-> rs[c[1]][c[2]].max_demand]
    IN  [total_buses  |-> SumOver(buses, Cells(sd)),
         total_routes |-> Cardinality(sd.routes),
         avg_buses_per_route |->
             [num |-> SumOver(buses, Cells(sd)),
              den |-> Cardinality(sd.routes)],
         utilization_rate |->
             [num |-> SumOver(dem, Cells(sd)) * 100,
              den |-> SumOver(cap, Cells(sd))]]

\* variant: a best-effort schedule extracted whatever the status
ExtractResultsBestEffort(sd, sol, obj) ==
    LET rs == RouteSchedules(sd, sol.x)
    IN  [status |-> sol.status, objective_value |-> obj,
         route_schedules |-> rs, summary |-> Summary(sd, rs)]

\* the dict optimize_schedules returns for a solver outcome
ExtractResults(sd, sol, obj) ==
    IF sol.status = "Optimal"
    THEN LET rs == RouteSchedules(sd, sol.x)
         IN  [status |-> sol.status, objective_value |-> obj,
              route_schedules |-> rs, summary |-> Summary(sd, rs)]
    ELSE [status |-> sol.status, objective_value |-> obj,
          route_schedules |-> EmptyDict,
          summary |-> EmptyDict]

NoResults ==
    [status |-> "none", objective_value |-> 0,
     route_schedules |-> EmptyDict, summary |-> EmptyDict]

NotCalled == [called |-> FALSE, ret |-> "None", trips |-> {}]

\* the schedule optimizer before any call, for runs that exercise other parts
ScheduleIdle ==
    /\ schedule_data = [routes |-> {}, route_info |-> EmptyDict,
                        demand_patterns |-> EmptyDict, vehicle_capacity |-> 100,
                        min_headway |-> 5, max_headway |-> 30]
    /\ request = [vehicle_capacity |-> 100, min_headway |-> 5,
                  max_headway |-> 30, max_fleet_size |-> 50]
    /\ results = NoResults
    /\ gtfs = NotCalled
    /\ report = NotCalled
    /\ spc = "idle"

OptimizeSchedules ==
    /\ spc = "ready"
    /\ LET sol == LpSolve(schedule_data)
       IN  \E obj \in sol.objective :
              results' = ExtractResults(schedule_data, sol, obj)
    /\ spc' = "solved"
    /\ UNCHANGED <<request, schedule_data, gtfs, report, rvars, nvars, pvars>>
    /\ UNCHANGED <<avars, mvars>>

\* the trips generate_optimized_gtfs writes: one per bus of every cell
OptimizedTrips(res) ==
    {<<r, t, b>> \in (DOMAIN res.route_schedules) \X time_periods \X (0..max_fleet_size) :
        b < res.route_schedules[r][t].buses}

GenerateOptimizedGtfs ==
    /\ spc = "solved"
    /\ ~gtfs.called
    /\ gtfs' = IF results.status # "Optimal"
               THEN [called |-> TRUE, ret |-> "None", trips |-> {}]
               ELSE [called |-> TRUE, ret |-> "output_path",
                     trips |-> OptimizedTrips(results)]
    /\ UNCHANGED <<request, schedule_data, results, report, spc, rvars, nvars, pvars>>
    /\ UNCHANGED <<avars, mvars>>

CreateScheduleReport ==
    /\ spc = "solved"
    /\ ~report.called
    /\ report' = IF results.status # "Optimal"
                 THEN [called |-> TRUE, ret |-> "None", trips |-> {}]
                 ELSE [called |-> TRUE, ret |-> "output_path",
                       trips |-> {<<r, t, results.route_schedules[r][t].buses>> :
                                    <<r, t>> \in (DOMAIN results.route_schedules) \X time_periods}]
    /\ UNCHANGED <<request, schedule_data, results, gtfs, spc, rvars, nvars, pvars>>
    /\ UNCHANGED <<avars, mvars>>

\* the demand pattern of one route: stop 1 carries the level of the period
\* (peak in the two peak periods, an off-peak level not above it in the
\* others), the other stops half of it
DemandPattern(peak, offpeak) ==
    [t \in time_periods |->
       [s \in 1..NumStops |->
          LET level == IF t \in {"morning_peak", "afternoon_peak"}
                       THEN peak ELSE offpeak
          IN  IF s = 1 THEN level ELSE level \div 2]]

\* <<peak level, off-peak level>> of one route
DemandLevels == {lv \in DemandValues \X DemandValues : lv[2] <= lv[1]}

ScheduleInputs ==
    {[routes |-> rs,
      route_info |-> [r \in rs |-> [avg_trip_time |-> tt[r]]],
      demand_patterns |-> [r \in rs |-> DemandPattern(lv[r][1], lv[r][2])],
      vehicle_capacity |-> cap,
      min_headway |-> hw[1],
      max_headway |-> hw[2]] :
        rs \in RouteSets, tt \in [RouteIds -> TripTimes],
        lv \in [RouteIds -> DemandLevels],
        cap \in Capacities, hw \in Headways}

(***************************************************************************)
(* RouteOptimizer.optimize_route                                           *)
(* A stop is [id, pos]: pos is its place in metres along the road the      *)
(* stops lie on, so the geodesic distance of two stops is |pos - pos|.     *)
(* Nodes are numbered 1..n; node 1 is the depot (index 0 of the code).     *)
(***************************************************************************)
MaxStops == 3

StopPositions == {0, 700, 3100}

StopDemands == {10, 60}

VehicleCapacities == {50, 100}

RouteTimes == {5, 600}

\* route_optimization.average_speed_kmh default
average_speed_kmh == 30

Abs(a) == IF a >= 0 THEN a ELSE 0 - a

\* calculate_distance_matrix, in metres
distance_matrix(stops) ==
    [i \in 1..Len(stops) |->
       [j \in 1..Len(stops) |->
          IF i # j THEN Abs(stops[i].pos - stops[j].pos) ELSE 0]]

\* distance_callback: int(km * 1000)
distance_callback(dm, i, j) == dm[i][j]

\* time_callback: int((km / average_speed_kmh) * 60)
time_callback(dm, i, j) == (dm[i][j] * 60) \div (average_speed_kmh * 1000)

\* demand_callback
demand_callback(demands, i) == demands[i]

\* variant: a route that may start at any node instead of the depot
ToursAnyStart(n) ==
    {p \in [1..n -> 1..n] : \A i, j \in 1..n : p[i] = p[j] => i = j}

\* the routes of the single vehicle: every node once, starting at the depot
Tours(n) ==
    {p \in [1..n -> 1..n] : p[1] = 1 /\ \A i, j \in 1..n : p[i] = p[j] => i = j}

\* the node after position k of a tour; the tour closes at the depot
NextNode(p, n, k) == IF k = n THEN 1 ELSE p[k + 1]

RECURSIVE CapacityCumul(_, _, _)
\* cumul of dimension 'Capacity' after the first k nodes of the tour
CapacityCumul(demands, p, k) ==
    IF k = 0 THEN 0
    ELSE CapacityCumul(demands, p, k - 1) + demand_callback(demands, p[k])

RECURSIVE TimeCumul(_, _, _, _)
\* least cumul of dimension 'Time' after the first k arcs of the tour
TimeCumul(dm, p, n, k) ==
    IF k = 0 THEN 0
    ELSE TimeCumul(dm, p, n, k - 1) + time_callback(dm, p[k], NextNode(p, n, k))

RECURSIVE ArcCost(_, _, _, _)
\* summed arc cost of the first k arcs of the tour
ArcCost(dm, p, n, k) ==
    IF k = 0 THEN 0
    ELSE ArcCost(dm, p, n, k - 1) + distance_callback(dm, p[k], NextNode(p, n, k))

\* variant: the 'Capacity' dimension never added
CapacityOkUnchecked(demands, cap, p, n) == TRUE

\* variant: every stop's own demand held against the capacity, not the load
CapacityOkPerStop(demands, cap, p, n) ==
    \A k \in 1..n : demand_callback(demands, p[k]) <= cap

\* AddDimensionWithVehicleCapacity: every cumul within [0, vehicle_capacity]
CapacityOk(demands, cap, p, n) ==
    \A k \in 0..n : /\ CapacityCumul(demands, p, k) >= 0
                    /\ CapacityCumul(demands, p, k) <= cap

\* variant: the 'Time' dimension never added
TimeOkUnchecked(dm, maxt, p, n) == TRUE

\* AddDimension 'Time': every cumul within [0, max_route_time]
TimeOk(dm, maxt, p, n) ==
    \A k \in 0..n : TimeCumul(dm, p, n, k) <= maxt

\* variant: a route of fewer than two stops is given no tour
FeasibleToursNeedTwoStops(in) ==
    LET n  == Len(in.stops)
        dm == distance_matrix(in.stops)
    IN  IF n < 2 THEN {}
        ELSE {p \in Tours(n) : /\ CapacityOk(in.demands, in.vehicle_capacity, p, n)
                               /\ TimeOk(dm, in.max_route_time, p, n)}

FeasibleTours(in) ==
    LET n  == Len(in.stops)
        dm == distance_matrix(in.stops)
    IN  {p \in Tours(n) : /\ CapacityOk(in.demands, in.vehicle_capacity, p, n)
                          /\ TimeOk(dm, in.max_route_time, p, n)}

\* routing.SolveWithParameters: on these small routes the search ends with a
\* cheapest feasible tour, or with no solution when there is none
SolveWithParameters(in) ==
    LET n  == Len(in.stops)
        dm == distance_matrix(in.stops)
        F  == FeasibleTours(in)
        costs == {ArcCost(dm, p, n, n) : p \in F}
    IN  {p \in F : \A c \in costs : ArcCost(dm, p, n, n) <= c}

\* round(km, 2), as a count of 10 m
Round2(metres) == (metres + 5) \div 10

\* variant: the arc back to the depot left out of the distance
ExtractSolutionOpenPath(in, p) ==
    LET n  == Len(in.stops)
        dm == distance_matrix(in.stops)
    IN  [ret |-> "solution",
         route_stops |-> [k \in 1..n |-> in.stops[p[k]]],
         total_distance_km |-> Round2(ArcCost(dm, p, n, n - 1)),
         total_time_minutes |-> TimeCumul(dm, p, n, n)]

\* _extract_solution
ExtractSolution(in, p) ==
    LET n  == Len(in.stops)
        dm == distance_matrix(in.stops)
    IN  [ret |-> "solution",
         route_stops |-> [k \in 1..n |-> in.stops[p[k]]],
         total_distance_km |-> Round2(ArcCost(dm, p, n, n)),
         total_time_minutes |-> TimeCumul(dm, p, n, n)]

ReturnNone ==
    [ret |-> "None", route_stops |-> <<>>,
     total_distance_km |-> 0, total_time_minutes |-> 0]

NoRouteCall ==
    [ret |-> "none yet", route_stops |-> <<>>,
     total_distance_km |-> 0, total_time_minutes |-> 0]

\* variant: an empty route answered with a degenerate tour
OptimizeRouteDegenerate ==
    /\ rpc = "ready"
    /\ IF Len(route_in.stops) = 0
       THEN route_out' = [ret |-> "solution", route_stops |-> <<>>,
                          total_distance_km |-> 0, total_time_minutes |-> 0]
       ELSE LET sols == SolveWithParameters(route_in)
            IN  IF sols = {}
                THEN route_out' = ReturnNone
                ELSE \E p \in sols : route_out' = ExtractSolution(route_in, p)
    /\ rpc' = "done"
    /\ UNCHANGED <<route_in, svars, nvars, pvars>>
    /\ UNCHANGED <<avars, mvars>>

OptimizeRoute ==
    /\ rpc = "ready"
    /\ IF Len(route_in.stops) = 0
       THEN route_out' = ReturnNone
       ELSE LET sols == SolveWithParameters(route_in)
            IN  IF sols = {}
                THEN route_out' = ReturnNone
                ELSE \E p \in sols : route_out' = ExtractSolution(route_in, p)
    /\ rpc' = "done"
    /\ UNCHANGED <<route_in, svars, nvars, pvars>>
    /\ UNCHANGED <<avars, mvars>>

RouteInputs ==
    UNION {
      {[stops |-> [i \in 1..n |-> [id |-> i, pos |-> pos[i]]],
        demands |-> dem,
        vehicle_capacity |-> cap,
        max_route_time |-> maxt] :
          pos \in [1..n -> StopPositions], dem \in [1..n -> StopDemands],
          cap \in VehicleCapacities, maxt \in RouteTimes} : n \in 0..MaxStops}

\* the route optimizer before any call, for runs that exercise other parts
RouteIdle ==
    /\ route_in = [stops |-> <<>>, demands |-> <<>>,
                   vehicle_capacity |-> 500, max_route_time |-> 600]
    /\ route_out = NoRouteCall
    /\ rpc = "idle"

(***************************************************************************)
(* RouteOptimizer.optimize_network                                         *)
(* A row of route_stops_df is [pos, demand_map, malformed]: pos the places *)
(* of its stops in metres, demand_map the mean predicted demand of the     *)
(* stops that demand_data knows, malformed whether a stop carries a        *)
(* latitude outside [-90, 90], for which geodesic raises ValueError.       *)
(* The accumulators are kept in metres; a route's total_distance_km is in  *)
(* units of 0.01 km, percentages are in units of 0.01 %.                   *)
(***************************************************************************)
MaxRoutes == 2

\* the rows load_gtfs_data can deliver (the groupby gives every route at
\* least one stop): one stop; a line served out and back twice; two stops,
\* the second with a predicted demand above the default capacity; a route
\* too long for the default route time, its second stop without
\* prediction; a route with a malformed coordinate
RouteRows ==
    { [pos |-> <<0>>, demand_map |-> [i \in {1} |-> 30], malformed |-> FALSE],
      [pos |-> <<0, 3100, 0, 3100>>, demand_map |-> [i \in 1..4 |-> 20],
       malformed |-> FALSE],
      [pos |-> <<0, 700>>, demand_map |-> [i \in 1..2 |-> IF i = 1 THEN 30 ELSE 600],
       malformed |-> FALSE],
      [pos |-> <<0, 160000>>, demand_map |-> [i \in {1} |-> 30], malformed |-> FALSE],
      [pos |-> <<0, 700>>, demand_map |-> [i \in 1..2 |-> 30], malformed |-> TRUE] }

\* values np.random.randint(20, 40) and np.random.randint(5, 15) can give
EstimateHigh == {20, 39}

EstimateLow == {5, 14}

\* defaults of optimize_route's vehicle_capacity and max_route_time
default_vehicle_capacity == 500

default_max_route_time == 600

\* demand of a stop that demand_data does not know
default_demand == 10

\* round(a / b) for b > 0: the nearest integer, a tie to the even one
RoundRatio(a, b) ==
    LET q == a \div b
        r == a % b
    IN  IF 2 * r < b THEN q
        ELSE IF 2 * r > b THEN q + 1
        ELSE IF q % 2 = 0 THEN q ELSE q + 1

\* the stops list built from a row
RowStops(row) == [i \in 1..Len(row.pos) |-> [id |-> i, pos |-> row.pos[i]]]

RECURSIVE PathLength(_, _)
\* _calculate_route_distance: the stops in the order given, no way back
PathLength(stops, k) ==
    IF k <= 1 THEN 0
    ELSE PathLength(stops, k - 1) + Abs(stops[k].pos - stops[k - 1].pos)

calculate_route_distance(stops) == PathLength(stops, Len(stops))

\* _estimate_demand_for_route: first, last and middle stop draw from the
\* higher range
estimate_demand_for_route(n) ==
    {d \in [1..n -> EstimateHigh \cup EstimateLow] :
        \A i \in 1..n :
           d[i] \in IF i - 1 = 0 \/ i - 1 = n - 1 \/ i - 1 = n \div 2
                    THEN EstimateHigh ELSE EstimateLow}

\* demands from demand_data: the mean per stop, 10 for a stop not in it
predicted_demands(row) ==
    [i \in 1..Len(row.pos) |->
       IF i \in DOMAIN row.demand_map THEN row.demand_map[i] ELSE default_demand]

\* the demands the loop hands to optimize_route
RouteDemands(in, row) ==
    IF in.demand_data THEN {predicted_demands(row)}
    ELSE estimate_demand_for_route(Len(row.pos))

\* what optimize_route can return for its arguments
optimize_route(in) ==
    IF Len(in.stops) = 0 THEN {ReturnNone}
    ELSE LET sols == SolveWithParameters(in)
         IN  IF sols = {} THEN {ReturnNone}
             ELSE {ExtractSolution(in, p) : p \in sols}

\* variant: the ratio left as a fraction
efficiency_improvement_fraction(saved, original) ==
    IF original > 0 THEN RoundRatio(saved * 100, original) ELSE 0

\* efficiency_improvement, rounded to 0.01 %
efficiency_improvement(saved, original) ==
    IF original > 0 THEN RoundRatio(saved * 10000, original) ELSE 0

NetNotReturned ==
    [ret |-> "none yet", optimized_routes |-> EmptyDict,
     total_distance_saved_km |-> 0, original_total_distance_km |-> 0,
     efficiency_improvement |-> 0]

\* the exception of one route's solve leaving optimize_network
NetRaised ==
    [ret |-> "raised", optimized_routes |-> EmptyDict,
     total_distance_saved_km |-> 0, original_total_distance_km |-> 0,
     efficiency_improvement |-> 0]

\* the optimization_results dict
NetResults ==
    [ret |-> "results", optimized_routes |-> optimized_routes,
     total_distance_saved_km |-> RoundRatio(total_distance_saved, 10),
     original_total_distance_km |-> RoundRatio(original_total_distance, 10),
     efficiency_improvement |->
         efficiency_improvement(total_distance_saved, original_total_distance)]

\* the API before any request
ApiIdle ==
    /\ schedule_results = EmptyDict
    /\ api_task = "none"
    /\ post_answer = "none yet"
    /\ get_answer = "none yet"
    /\ polls = 0

\* the model registry left alone
RegistryIdle ==
    /\ stages = EmptyDict
    /\ call_log = <<>>

\* optimize_network before any call
NetworkIdle ==
    /\ net_in = [routes |-> <<>>, demand_data |-> FALSE]
    /\ net_i = 1
    /\ optimized_routes = EmptyDict
    /\ total_distance_saved = 0
    /\ original_total_distance = 0
    /\ net_out = NetNotReturned
    /\ npc = "idle"

\* one pass of the loop over the rows, the call of optimize_route included
OptimizeNetworkRoute ==
    /\ npc = "loop"
    /\ net_i <= Len(net_in.routes)
    /\ LET row   == net_in.routes[net_i]
           stops == RowStops(row)
       IN  IF Len(stops) = 0
           THEN /\ net_i' = net_i + 1
                /\ UNCHANGED <<net_in, optimized_routes, total_distance_saved,
                               original_total_distance, net_out, npc, rvars>>
           ELSE IF row.malformed
           THEN /\ npc' = "raised"
                /\ net_out' = NetRaised
                /\ UNCHANGED <<net_in, net_i, optimized_routes, total_distance_saved,
                               original_total_distance, rvars>>
           ELSE LET original_dist == calculate_route_distance(stops)
                IN  \E demands \in RouteDemands(net_in, row) :
                       LET in == [stops |-> stops, demands |-> demands,
                                  vehicle_capacity |-> default_vehicle_capacity,
                                  max_route_time |-> default_max_route_time]
                       IN  \E optimized_route \in optimize_route(in) :
                              /\ route_in' = in
                              /\ route_out' = optimized_route
                              /\ rpc' = "done"
                              /\ original_total_distance' =
                                     original_total_distance + original_dist
                              /\ IF optimized_route.ret = "solution"
                                 THEN /\ optimized_routes' =
                                           [k \in DOMAIN optimized_routes \cup {net_i} |->
                                              IF k = net_i THEN optimized_route
                                              ELSE optimized_routes[k]]
                                      /\ total_distance_saved' =
                                           total_distance_saved + original_dist
                                           - 10 * optimized_route.total_distance_km
                                 ELSE UNCHANGED <<optimized_routes, total_distance_saved>>
                              /\ net_i' = net_i + 1
                              /\ UNCHANGED <<net_in, net_out, npc>>
    /\ UNCHANGED <<svars, pvars>>
    /\ UNCHANGED <<avars, mvars>>

\* after the loop: the metric and the returned dict
OptimizeNetworkReturn ==
    /\ npc = "loop"
    /\ net_i > Len(net_in.routes)
    /\ net_out' = NetResults
    /\ npc' = "done"
    /\ UNCHANGED <<net_in, net_i, optimized_routes, total_distance_saved,
                   original_total_distance, rvars, svars, pvars>>
    /\ UNCHANGED <<avars, mvars>>

NetworkInputs ==
    {[routes |-> rows, demand_data |-> dd] :
        rows \in UNION {[1..n -> RouteRows] : n \in 1..MaxRoutes},
        dd \in BOOLEAN}

(***************************************************************************)
(* TransportPipeline.run_pipeline                                          *)
(***************************************************************************)
\* run_pipeline before any call
PipelineIdle ==
    /\ full_data_with_demand = "none yet"
    /\ pipe_out = "none yet"
    /\ ppc = "idle"

InitNetwork ==
    /\ net_in \in NetworkInputs
    /\ net_i = 1
    /\ optimized_routes = EmptyDict
    /\ total_distance_saved = 0
    /\ original_total_distance = 0
    /\ net_out = NetNotReturned
    /\ npc = "loop"
    /\ RouteIdle
    /\ ScheduleIdle
    /\ PipelineIdle
    /\ ApiIdle
    /\ RegistryIdle

NextNetwork ==
    \/ OptimizeNetworkRoute
    \/ OptimizeNetworkReturn

SpecNetwork == InitNetwork /\ [][NextNetwork]_vars

\* the schedule_data of the schedule step: prepare_schedule_data over the
\* GTFS feed with the configured capacity and headways, the demand patterns
\* replaced by the predicted ones
PipelineScheduleInputs ==
    {[routes |-> rs,
      route_info |-> [r \in rs |-> [avg_trip_time |-> SetMax(TripTimes)]],
      demand_patterns |-> [r \in rs |-> DemandPattern(pk, 0)],
      vehicle_capacity |-> 100,
      min_headway |-> 5,
      max_headway |-> 30] :
        rs \in RouteSets, pk \in {45, 300}}

\* what the body of _run_schedule_optimization_step does with one
\* schedule_data: optimize_schedules and, when the status is Optimal,
\* generate_optimized_gtfs and create_schedule_report
PipelineScheduleRuns ==
    UNION {
      LET sol == LpSolve(sd)
      IN  {LET res == ExtractResults(sd, sol, obj)
           IN  [schedule_data |-> sd,
                results |-> res,
                gtfs |-> IF res.status = "Optimal"
                         THEN [called |-> TRUE, ret |-> "output_path",
                               trips |-> OptimizedTrips(res)]
                         ELSE NotCalled,
                report |-> IF res.status = "Optimal"
                           THEN [called |-> TRUE, ret |-> "output_path",
                                 trips |-> {<<r, t, res.route_schedules[r][t].buses>> :
                                              <<r, t>> \in (DOMAIN res.route_schedules)
                                                           \X time_periods}]
                           ELSE NotCalled] : obj \in sol.objective}
      : sd \in PipelineScheduleInputs}

\* step 1: _run_demand_prediction_step gives the data or, after an
\* exception, None, upon which the pipeline ends
RunDemandPredictionStep ==
    /\ ppc = "start"
    /\ \E df \in {"None", "data"} :
          /\ full_data_with_demand' = df
          /\ IF df = "None"
             THEN pipe_out' = "None" /\ ppc' = "returned"
             ELSE pipe_out' = pipe_out /\ ppc' = "predicted"
    /\ UNCHANGED <<svars, rvars, nvars>>
    /\ UNCHANGED <<avars, mvars>>

\* step 2: _run_route_optimization_step calls optimize_network("data/raw"),
\* without demand_data
RunRouteOptimizationStep ==
    /\ ppc = "predicted"
    /\ npc = "idle"
    /\ \E in \in NetworkInputs :
          /\ ~in.demand_data
          /\ net_in' = in
    /\ npc' = "loop"
    /\ ppc' = "routes"
    /\ UNCHANGED <<net_i, optimized_routes, total_distance_saved,
                   original_total_distance, net_out,
                   full_data_with_demand, pipe_out, svars, rvars>>
    /\ UNCHANGED <<avars, mvars>>

\* optimize_network has returned or raised (then the step returns None):
\* without optimized routes the pipeline ends
CheckRouteResults ==
    /\ ppc = "routes"
    /\ npc \in {"done", "raised"}
    /\ IF npc = "raised" \/ DOMAIN net_out.optimized_routes = {}
       THEN pipe_out' = "None" /\ ppc' = "returned"
       ELSE pipe_out' = pipe_out /\ ppc' = "routed"
    /\ UNCHANGED <<full_data_with_demand, svars, rvars, nvars>>
    /\ UNCHANGED <<avars, mvars>>

\* variant: the schedule step not waiting for the route step to return
RunScheduleOptimizationStepEarly ==
    /\ ppc \in {"routes", "routed"}
    /\ spc = "idle"
    /\ \E run \in PipelineScheduleRuns :
          /\ schedule_data' = run.schedule_data
          /\ results' = run.results
          /\ gtfs' = run.gtfs
          /\ report' = run.report
    /\ spc' = "solved"
    /\ ppc' = "scheduled"
    /\ UNCHANGED <<request, full_data_with_demand, pipe_out, rvars, nvars>>
    /\ UNCHANGED <<avars, mvars>>

\* step 3: _run_schedule_optimization_step
RunScheduleOptimizationStep ==
    /\ ppc = "routed"
    /\ spc = "idle"
    /\ \E run \in PipelineScheduleRuns :
          /\ schedule_data' = run.schedule_data
          /\ results' = run.results
          /\ gtfs' = run.gtfs
          /\ report' = run.report
    /\ spc' = "solved"
    /\ ppc' = "scheduled"
    /\ UNCHANGED <<request, full_data_with_demand, pipe_out, rvars, nvars>>
    /\ UNCHANGED <<avars, mvars>>

\* the final_results dict is saved and returned
ReturnFinalResults ==
    /\ ppc = "scheduled"
    /\ pipe_out' = "final_results"
    /\ ppc' = "returned"
    /\ UNCHANGED <<full_data_with_demand, svars, rvars, nvars>>
    /\ UNCHANGED <<avars, mvars>>

InitPipeline ==
    /\ full_data_with_demand = "none yet"
    /\ pipe_out = "none yet"
    /\ ppc = "start"
    /\ NetworkIdle
    /\ RouteIdle
    /\ ScheduleIdle
    /\ ApiIdle
    /\ RegistryIdle

NextPipeline ==
    \/ RunDemandPredictionStep
    \/ RunRouteOptimizationStep
    \/ OptimizeNetworkRoute
    \/ OptimizeNetworkReturn
    \/ CheckRouteResults
    \/ RunScheduleOptimizationStep
    \/ ReturnFinalResults

SpecPipeline == InitPipeline /\ [][NextPipeline]_vars

InitRoute ==
    /\ route_in \in RouteInputs
    /\ route_out = NoRouteCall
    /\ rpc = "ready"
    /\ ScheduleIdle
    /\ NetworkIdle
    /\ PipelineIdle
    /\ ApiIdle
    /\ RegistryIdle

NextRoute == OptimizeRoute

SpecRoute == InitRoute /\ [][NextRoute]_vars

InitSchedule ==
    /\ schedule_data \in ScheduleInputs
    /\ \E fleet \in FleetRequests :
          request = [vehicle_capacity |-> schedule_data.vehicle_capacity,
                     min_headway |-> schedule_data.min_headway,
                     max_headway |-> schedule_data.max_headway,
                     max_fleet_size |-> fleet]
    /\ results = NoResults
    /\ gtfs = NotCalled
    /\ report = NotCalled
    /\ spc = "ready"
    /\ RouteIdle
    /\ NetworkIdle
    /\ PipelineIdle
    /\ ApiIdle
    /\ RegistryIdle

NextSchedule ==
    \/ OptimizeSchedules
    \/ GenerateOptimizedGtfs
    \/ CreateScheduleReport

SpecSchedule == InitSchedule /\ [][NextSchedule]_vars

(***************************************************************************)
(* The API: POST /optimize/schedules and GET /results/schedules            *)
(***************************************************************************)
MaxPolls == 6

\* positional parameters of ScheduleOptimizer.optimize_schedules besides self
optimize_schedules_parameters == 1

\* positional arguments of the call in run_schedule_optimization:
\* "data/raw" and request.dict()
run_schedule_optimization_arguments == 2

ApiRequests ==
    {[vehicle_capacity |-> cap, min_headway |-> hw[1], max_headway |-> hw[2],
      max_fleet_size |-> fleet] :
        cap \in Capacities, hw \in Headways, fleet \in FleetRequests}

\* POST /optimize/schedules: the task is added and the answer says that
\* the optimization started
PostOptimizeSchedules ==
    /\ api_task # "queued"
    /\ \E req \in ApiRequests : request' = req
    /\ api_task' = "queued"
    /\ post_answer' = "started"
    /\ UNCHANGED <<schedule_data, results, gtfs, report, spc,
                   schedule_results, get_answer, polls, rvars, nvars, pvars, mvars>>

\* the background task run_schedule_optimization: a call with more
\* positional arguments than the method takes raises TypeError before the
\* assignment to schedule_results
RunScheduleOptimization ==
    /\ api_task = "queued"
    /\ IF run_schedule_optimization_arguments = optimize_schedules_parameters
       THEN /\ \E run \in PipelineScheduleRuns : schedule_results' = run.results
            /\ api_task' = "finished"
       ELSE /\ schedule_results' = schedule_results
            /\ api_task' = "raised"
    /\ UNCHANGED <<post_answer, get_answer, polls, svars, rvars, nvars, pvars, mvars>>

\* GET /results/schedules
GetResultsSchedules ==
    /\ polls < MaxPolls
    /\ polls' = polls + 1
    /\ get_answer' = IF schedule_results # EmptyDict THEN "success" ELSE "pending"
    /\ UNCHANGED <<schedule_results, api_task, post_answer,
                   svars, rvars, nvars, pvars, mvars>>

InitApi ==
    /\ ApiIdle
    /\ ScheduleIdle
    /\ RouteIdle
    /\ NetworkIdle
    /\ PipelineIdle
    /\ RegistryIdle

NextApi ==
    \/ PostOptimizeSchedules
    \/ RunScheduleOptimization
    \/ GetResultsSchedules

\* the server runs a background task once its response has been sent
SpecApi == InitApi /\ [][NextApi]_vars /\ WF_vars(RunScheduleOptimization)

(***************************************************************************)
(* ModelRollbackManager                                                    *)
(* Versions are numbered 1..MaxVersions; 0 stands for no version (None).   *)
(* An entry of call_log is one rollback_model call: the stages before and  *)
(* after it, the version it found in Production (current), the version it  *)
(* chose to promote (previous) and what it returned.                       *)
(***************************************************************************)
MaxVersions == 3

MaxCalls == 2

Stages == {"None", "Production", "Archived"}

\* variant: a single Production or Archived version is taken as previous
get_previous_production_version_single(st) ==
    LET production_versions ==
            {v \in DOMAIN st : st[v] = "Production" \/ st[v] = "Archived"}
    IN  IF production_versions = {} THEN 0
        ELSE IF Cardinality(production_versions) = 1 THEN SetMax(production_versions)
        ELSE SetMax(production_versions \ {SetMax(production_versions)})

\* get_previous_production_version: of the versions in Production or
\* Archived, the one with the second highest number
get_previous_production_version(st) ==
    LET production_versions ==
            {v \in DOMAIN st : st[v] = "Production" \/ st[v] = "Archived"}
    IN  IF Cardinality(production_versions) < 2 THEN 0
        ELSE SetMax(production_versions \ {SetMax(production_versions)})

\* transition_model_version_stage with archive_existing_versions=False
transition_model_version_stage(st, version, stage) ==
    [st EXCEPT ![version] = stage]

\* what one rollback_model call can do from the stages st: the search for
\* the Production version may find none (IndexError), there may be no
\* previous version, and either transition may raise; every exception is
\* caught and answered with False
rollback_model(st) ==
    LET in_production == {v \in DOMAIN st : st[v] = "Production"}
    IN  IF in_production = {}
        THEN {[ret |-> FALSE, before |-> st, after |-> st,
               current |-> 0, previous |-> 0]}
        ELSE UNION {
               LET previous_version == get_previous_production_version(st)
                   archived == transition_model_version_stage(
                                   st, current_version, "Archived")
               IN  IF previous_version = 0
                   THEN {[ret |-> FALSE, before |-> st, after |-> st,
                          current |-> current_version, previous |-> 0]}
                   ELSE {[ret |-> FALSE, before |-> st, after |-> st,
                          current |-> current_version,
                          previous |-> previous_version],
                         [ret |-> FALSE, before |-> st, after |-> archived,
                          current |-> current_version,
                          previous |-> previous_version],
                         [ret |-> TRUE, before |-> st,
                          after |-> transition_model_version_stage(
                                        archived, previous_version, "Production"),
                          current |-> current_version,
                          previous |-> previous_version]}
               : current_version \in in_production}

\* a direct call of rollback_model
RollbackModel ==
    /\ Len(call_log) < MaxCalls
    /\ \E call \in rollback_model(stages) :
          /\ stages' = call.after
          /\ call_log' = Append(call_log, call @@ [by |-> "caller"])
    /\ UNCHANGED <<svars, rvars, nvars, pvars, avars>>

\* one pass of the loop of monitor_and_rollback in which the metrics ask
\* for a rollback
MonitorAndRollback ==
    /\ Len(call_log) < MaxCalls
    /\ \E call \in rollback_model(stages) :
          /\ stages' = call.after
          /\ call_log' = Append(call_log, call @@ [by |-> "monitor"])
    /\ UNCHANGED <<svars, rvars, nvars, pvars, avars>>

InitRollback ==
    /\ stages \in [1..MaxVersions -> Stages]
    /\ call_log = <<>>
    /\ ScheduleIdle
    /\ RouteIdle
    /\ NetworkIdle
    /\ PipelineIdle
    /\ ApiIdle

NextRollback ==
    \/ RollbackModel
    \/ MonitorAndRollback

SpecRollback == InitRollback /\ [][NextRollback]_vars

(***************************************************************************)
(* Properties of the schedule optimizer (checked under SpecSchedule).      *)
(***************************************************************************)

\* C1: in every Optimal result of optimize_schedules, every (route, period)
\* entry has buses * vehicle_capacity >= max_demand: the reported capacity
\* is never below the reported max_demand.
C1_CapacityCoversDemand ==
    results.status = "Optimal" =>
        \A r \in DOMAIN results.route_schedules : \A t \in time_periods :
            LET e == results.route_schedules[r][t]
            IN  /\ e.capacity >= e.max_demand
                /\ e.buses * schedule_data.vehicle_capacity
                       >= max_demand(schedule_data, r, t)

\* an Optimal result with a cell whose demand needs more buses than the
\* headway rows ask for
C1_Witness ==
    /\ results.status = "Optimal"
    /\ \E r \in DOMAIN results.route_schedules : \E t \in time_periods :
          LET e == results.route_schedules[r][t]
          IN  /\ e.max_demand > schedule_data.vehicle_capacity
              /\ e.buses > min_buses_for_headway(schedule_data, r, t)
              /\ e.capacity >= e.max_demand

\* C2: in every Optimal result every (route, period) entry has a headway
\* avg_trip_time / buses with min_headway <= headway <= max_headway.
C2_HeadwayWithinBounds ==
    results.status = "Optimal" =>
        \A r \in DOMAIN results.route_schedules : \A t \in time_periods :
            LET h == results.route_schedules[r][t].headway
            IN  /\ h.den > 0
                /\ h.num = schedule_data.route_info[r].avg_trip_time
                /\ h.den = results.route_schedules[r][t].buses
                /\ schedule_data.min_headway * h.den <= h.num
                /\ h.num <= schedule_data.max_headway * h.den

\* an Optimal result with a cell that the maximum headway alone lifts above
\* one bus
C2_Witness ==
    /\ results.status = "Optimal"
    /\ \E r \in DOMAIN results.route_schedules : \E t \in time_periods :
          LET e == results.route_schedules[r][t]
          IN  /\ e.buses > 1
              /\ e.buses > min_buses_needed(schedule_data, r, t)
              /\ e.headway.num <= schedule_data.max_headway * e.headway.den

\* C3: in every Optimal result the vehicle counts of all (route, period)
\* pairs sum to at most the max_fleet_size the caller configured in its
\* request.
C3_FleetWithinRequestedCap ==
    results.status = "Optimal" =>
        results.summary.total_buses <= request.max_fleet_size

\* C4: whenever optimize_schedules returns Optimal, objective_value is the
\* sum over the cells of max(1, ceil(max_demand / vehicle_capacity),
\* ceil(avg_trip_time / max_headway)), the returned assignment is feasible
\* and has that total, and no feasible assignment has a smaller total.
\* (Every row but the fleet row bounds one variable, so a feasible
\* assignment with a smaller total would be below the returned one in some
\* cell, and lowering the returned one to it in just that cell would be
\* feasible as well; the formula rules that out for every cell and value.)
C4_ObjectiveIsMinimal ==
    results.status = "Optimal" =>
        LET sd    == schedule_data
            cells == Cells(sd)
            x     == [c \in cells |-> results.route_schedules[c[1]][c[2]].buses]
            floor == [c \in cells |->
                        Max2(1, Max2(CeilDiv(max_demand(sd, c[1], c[2]),
                                             sd.vehicle_capacity),
                                     CeilDiv(sd.route_info[c[1]].avg_trip_time,
                                             sd.max_headway)))]
        IN  /\ results.objective_value = SumOver(floor, cells)
            /\ results.objective_value = SumOver(x, cells)
            /\ Feasible(sd, x)
            /\ \A c \in cells : \A v \in 0..(x[c] - 1) :
                  ~Feasible(sd, [x EXCEPT ![c] = v])

\* an Optimal result in which one cell is sized by demand and another by
\* the maximum headway
C4_Witness ==
    /\ results.status = "Optimal"
    /\ \E c, d \in Cells(schedule_data) :
          /\ min_buses_needed(schedule_data, c[1], c[2])
                 > min_buses_for_headway(schedule_data, c[1], c[2])
          /\ min_buses_for_headway(schedule_data, d[1], d[2])
                 > min_buses_needed(schedule_data, d[1], d[2])
          /\ results.objective_value > 2 * Cardinality(Cells(schedule_data))

\* C5: if the fleet cap of the scheduler is smaller than the sum over the
\* cells of the minimum vehicle floor (from demand coverage or the maximum
\* headway), optimize_schedules returns status Infeasible.
C5_FleetCapInfeasible ==
    LET sd    == schedule_data
        floor == [c \in Cells(sd) |->
                    Max2(1, Max2(CeilDiv(max_demand(sd, c[1], c[2]),
                                         sd.vehicle_capacity),
                                 CeilDiv(sd.route_info[c[1]].avg_trip_time,
                                         sd.max_headway)))]
    IN  (spc = "solved" /\ SumOver(floor, Cells(sd)) > max_fleet_size)
            => results.status = "Infeasible"

\* an Infeasible result where every cell's floor fits under its
\* minimum-headway ceiling, so that only the fleet row is violated
C5_Witness ==
    /\ spc = "solved"
    /\ results.status = "Infeasible"
    /\ \A c \in Cells(schedule_data) :
          CellLower(schedule_data, c[1], c[2]) <= CellUpper(schedule_data, c[1], c[2])
    /\ SumOver([c \in Cells(schedule_data) |-> CellLower(schedule_data, c[1], c[2])],
               Cells(schedule_data)) > max_fleet_size

\* C6: whenever the solver status is not Optimal, the result carries that
\* status and no schedule: route_schedules and summary are empty, and
\* generate_optimized_gtfs and create_schedule_report return None and
\* write nothing.
C6_NoScheduleUnlessOptimal ==
    (spc = "solved" /\ results.status # "Optimal") =>
        /\ results.status = "Infeasible"
        /\ DOMAIN results.route_schedules = {}
        /\ DOMAIN results.summary = {}
        /\ gtfs.called => (gtfs.ret = "None" /\ gtfs.trips = {})
        /\ report.called => (report.ret = "None" /\ report.trips = {})

\* an Infeasible result for which both generators have been called
C6_Witness ==
    /\ spc = "solved"
    /\ results.status = "Infeasible"
    /\ gtfs.called
    /\ report.called

C8_EveryCellAtLeastOne ==
    results.status = "Optimal" =>
        /\ DOMAIN results.route_schedules = schedule_data.routes
        /\ \A r \in schedule_data.routes : \A t \in time_periods :
              /\ results.route_schedules[r][t].buses \in Nat
              /\ results.route_schedules[r][t].buses >= 1

\* an Optimal schedule with a cell of zero demand that gets exactly 1 bus
C8_Witness ==
    /\ results.status = "Optimal"
    /\ \E r \in schedule_data.routes : \E t \in time_periods :
          /\ max_demand(schedule_data, r, t) = 0
          /\ results.route_schedules[r][t].buses = 1

(***************************************************************************)
(* Properties of the route optimizer (checked under SpecRoute).            *)
(***************************************************************************)

\* C9: for every solution optimize_route returns, the demand summed over
\* every prefix of the returned tour is at most vehicle_capacity, and the
\* reported total_time_minutes is at most max_route_time.
C9_SolutionWithinCapacityAndTime ==
    route_out.ret = "solution" =>
        /\ \A k \in 1..Len(route_out.route_stops) :
              SumOver([i \in 1..k |-> route_in.demands[route_out.route_stops[i].id]],
                      1..k) <= route_in.vehicle_capacity
        /\ route_out.total_time_minutes <= route_in.max_route_time

\* a solution over three stops that carries more than the smaller capacity
\* of the model and takes longer than its shorter time limit
C9_Witness ==
    /\ route_out.ret = "solution"
    /\ Len(route_out.route_stops) = 3
    /\ SumOver(route_in.demands, 1..3) > 50
    /\ route_out.total_time_minutes > 5

\* C10: for every route in which some single stop's demand exceeds
\* vehicle_capacity, optimize_route returns None (and returns: it does not
\* raise).
C10_StopOverCapacityGivesNone ==
    ( /\ rpc = "done"
      /\ \E i \in 1..Len(route_in.demands) :
            route_in.demands[i] > route_in.vehicle_capacity )
        => route_out = ReturnNone

\* a finished call for a route of several stops, within the time limit,
\* with one stop over the capacity and the other stops together within it
C10_Witness ==
    /\ rpc = "done"
    /\ Len(route_in.stops) >= 2
    /\ \E i \in 1..Len(route_in.demands) :
          /\ route_in.demands[i] > route_in.vehicle_capacity
          /\ SumOver(route_in.demands, (1..Len(route_in.demands)) \ {i})
                 <= route_in.vehicle_capacity
    /\ \E p \in Tours(Len(route_in.stops)) :
          TimeOk(distance_matrix(route_in.stops), route_in.max_route_time,
                 p, Len(route_in.stops))
    /\ route_out.ret = "None"

\* C11: for every route of a single stop whose demand is at most
\* vehicle_capacity, optimize_route returns a solution whose route_stops is
\* that one stop and whose total distance is 0.
C11_SingleStopSolved ==
    ( /\ rpc = "done"
      /\ Len(route_in.stops) = 1
      /\ route_in.demands[1] <= route_in.vehicle_capacity )
        => /\ route_out.ret = "solution"
           /\ route_out.route_stops = <<route_in.stops[1]>>
           /\ route_out.total_distance_km = 0

\* a finished call for one stop that fills part of the vehicle
C11_Witness ==
    /\ rpc = "done"
    /\ Len(route_in.stops) = 1
    /\ route_in.demands[1] > 0
    /\ route_in.demands[1] <= route_in.vehicle_capacity
    /\ route_out.ret = "solution"

C13_InvalidInputDistinct ==
    ( /\ rpc = "done"
      /\ \/ Len(route_in.stops) = 0
         \/ route_in.vehicle_capacity < 0
         \/ \E i \in 1..Len(route_in.demands) : route_in.demands[i] < 0 )
        => route_out.ret \notin {"None", "solution"}

\* C14: for every solution optimize_route returns, route_stops holds every
\* input stop exactly once and nothing else, starts with stops[0], the
\* depot, and the tour closes at the depot: the reported distance is the
\* length of the closed tour through route_stops.
C14_RouteStopsPermutation ==
    route_out.ret = "solution" =>
        LET n  == Len(route_in.stops)
            rs == route_out.route_stops
            leg == [k \in 1..n |->
                      Abs(rs[k].pos - rs[IF k = n THEN 1 ELSE k + 1].pos)]
        IN  /\ Len(rs) = n
            /\ rs[1] = route_in.stops[1]
            /\ \A i \in 1..n : Cardinality({k \in 1..n : rs[k] = route_in.stops[i]}) = 1
            /\ \A k \in 1..n : \E i \in 1..n : rs[k] = route_in.stops[i]
            /\ route_out.total_distance_km = Round2(SumOver(leg, 1..n))

\* a solution over three stops at three different places, the depot not at
\* an end of the road
C14_Witness ==
    /\ route_out.ret = "solution"
    /\ Len(route_in.stops) = 3
    /\ route_in.stops[1].pos = 700
    /\ {route_in.stops[2].pos, route_in.stops[3].pos} = {0, 3100}
    /\ route_out.route_stops[1] = route_in.stops[1]

\* C15: for a feasible route of three stops (summed demand within capacity,
\* tour time within max_route_time) optimize_route returns a tour of all
\* three stops whose reported distance is the length of the shortest closed
\* tour over the three points, taken over both orderings that start at the
\* depot (rounded, as reported, to 0.01 km).
C15_ThreeStopsMinimumCycle ==
    LET st == route_in.stops
        d(i, j) == Abs(st[i].pos - st[j].pos)
        t(i, j) == (d(i, j) * 60) \div (average_speed_kmh * 1000)
        cycle(a, b) == d(1, a) + d(a, b) + d(b, 1)
        time(a, b)  == t(1, a) + t(a, b) + t(b, 1)
        best == IF cycle(2, 3) <= cycle(3, 2) THEN cycle(2, 3) ELSE cycle(3, 2)
    IN  ( /\ rpc = "done"
          /\ Len(st) = 3
          /\ route_in.demands[1] + route_in.demands[2] + route_in.demands[3]
                 <= route_in.vehicle_capacity
          /\ \/ time(2, 3) <= route_in.max_route_time
             \/ time(3, 2) <= route_in.max_route_time )
        => /\ route_out.ret = "solution"
           /\ {route_out.route_stops[k] : k \in 1..Len(route_out.route_stops)}
                  = {st[1], st[2], st[3]}
           /\ route_out.total_distance_km = Round2(best)

\* a solved route of three stops at three different places
C15_Witness ==
    /\ rpc = "done"
    /\ Len(route_in.stops) = 3
    /\ {route_in.stops[k].pos : k \in 1..3} = {0, 700, 3100}
    /\ route_out.ret = "solution"
    /\ route_out.total_distance_km = 620

\* C16: optimize_network reports efficiency_improvement = total distance
\* saved / total original distance * 100 (rounded to 0.01), the total saved
\* being the sum over the solved routes of original minus optimized
\* distance, and reports 0 when the total original distance is 0.
C16_EfficiencyImprovement ==
    npc = "done" =>
        LET solved == DOMAIN net_out.optimized_routes
            saved  == [k \in solved |->
                         calculate_route_distance(RowStops(net_in.routes[k]))
                         - 10 * net_out.optimized_routes[k].total_distance_km]
            total_saved == SumOver(saved, solved)
        IN  /\ net_out.total_distance_saved_km = RoundRatio(total_saved, 10)
            /\ net_out.efficiency_improvement =
                   IF original_total_distance = 0 THEN 0
                   ELSE RoundRatio(total_saved * 100 * 100, original_total_distance)

\* a finished run over two solved routes with a positive improvement
C16_Witness ==
    /\ npc = "done"
    /\ DOMAIN net_out.optimized_routes = {1, 2}
    /\ original_total_distance > 0
    /\ net_out.efficiency_improvement > 0

\* C17: a route whose solve returned no solution is left out of the
\* efficiency metric altogether: it is absent from optimized_routes and its
\* original distance is in neither the total saved nor the total original
\* distance, which is therefore the sum over the solved routes only.
C17_UnsolvedRouteExcluded ==
    npc = "done" =>
        LET solved   == DOMAIN net_out.optimized_routes
            original == [k \in solved |->
                           calculate_route_distance(RowStops(net_in.routes[k]))]
        IN  /\ \A k \in 1..Len(net_in.routes) :
                   (k \in solved) <=> (\E d \in RouteDemands(net_in, net_in.routes[k]) :
                       ReturnNone \notin optimize_route(
                           [stops |-> RowStops(net_in.routes[k]), demands |-> d,
                            vehicle_capacity |-> default_vehicle_capacity,
                            max_route_time |-> default_max_route_time]))
            /\ original_total_distance = SumOver(original, solved)

\* C18: an exception while one route is solved does not end the network
\* run: optimize_network goes on to every remaining route and returns its
\* result, the failed route not being among the optimized routes.
C18_FailureIsolated ==
    /\ npc # "raised"
    /\ npc = "done" =>
          /\ net_i = Len(net_in.routes) + 1
          /\ net_out.ret = "results"
          /\ \A k \in 1..Len(net_in.routes) :
                net_in.routes[k].malformed => k \notin DOMAIN net_out.optimized_routes

\* C19: every run ends with a result that accounts for every input route:
\* a route is among the solved ones or in an explicit list of the unsolved
\* ones; none is dropped without mention.
C19_EveryRouteAccounted ==
    (npc # "loop" \/ net_i > Len(net_in.routes)) =>
        /\ npc \in {"loop", "done"}
        /\ npc = "done" =>
              \A k \in 1..Len(net_in.routes) :
                 \/ k \in DOMAIN net_out.optimized_routes
                 \/ /\ "unsolved_routes" \in DOMAIN net_out
                    /\ k \in DOMAIN net_out.unsolved_routes

\* C20: in every run of the pipeline the schedule solve starts only after
\* the solve of every route has returned: a step that solves the schedule
\* finds the loop over the routes finished, and no step that solves a route
\* happens once the schedule solve has begun.
C20_ScheduleAfterAllRoutes ==
    [][ /\ (results' # results \/ spc' # spc) =>
               /\ npc = "done"
               /\ net_i > Len(net_in.routes)
        /\ (net_i' # net_i \/ route_out' # route_out) =>
               /\ spc = "idle" /\ spc' = "idle"
               /\ results = NoResults /\ results' = NoResults ]_vars

\* the schedule solved after a run of two routes of which one was solved
C20_Witness ==
    /\ ppc = "scheduled"
    /\ results.status = "Optimal"
    /\ Len(net_in.routes) = 2
    /\ net_i = 3
    /\ Cardinality(DOMAIN net_out.optimized_routes) = 1

\* C21: the cycle time the fleet scheduler uses for a route is the total
\* time of that route's solved tour whenever the route was solved (and a
\* configured fallback only when it was not).
C21_CycleTimeFromRouteSolver ==
    (ppc \in {"scheduled", "returned"} /\ spc = "solved") =>
        LET number == [r \in RouteIds |-> IF r = "R1" THEN 1 ELSE 2]
        IN  \A r \in schedule_data.routes :
               number[r] \in DOMAIN net_out.optimized_routes =>
                   schedule_data.route_info[r].avg_trip_time =
                       net_out.optimized_routes[number[r]].total_time_minutes

\* C25: optimize_schedules returns Infeasible when in some cell the least
\* vehicle count, max(1, ceil(max_demand / capacity), ceil(avg_trip_time /
\* max_headway)), exceeds floor(avg_trip_time / min_headway); and returns
\* Optimal when no cell does and the least counts sum to at most the fleet
\* cap of the scheduler.
C25_InfeasibleOnBoundConflict ==
    spc = "solved" =>
        LET sd    == schedule_data
            cells == sd.routes \X time_periods
            need  == [c \in cells |->
                        Max2(1, Max2(CeilDiv(max_demand(sd, c[1], c[2]), sd.vehicle_capacity),
                                     CeilDiv(sd.route_info[c[1]].avg_trip_time,
                                             sd.max_headway)))]
            allowed == [c \in cells |->
                          sd.route_info[c[1]].avg_trip_time \div sd.min_headway]
        IN  /\ (\E c \in cells : need[c] > allowed[c])
                   => results.status = "Infeasible"
            /\ ( /\ \A c \in cells : need[c] <= allowed[c]
                 /\ SumOver(need, cells) <= max_fleet_size )
                   => results.status = "Optimal"

\* a solved problem of two routes in which only one cell row pair
\* conflicts, the least counts summing to less than the fleet cap
C25_Witness ==
    /\ spc = "solved"
    /\ results.status = "Infeasible"
    /\ schedule_data.routes = {"R1", "R2"}
    /\ \E r \in schedule_data.routes :
          /\ CellLower(schedule_data, r, "morning_peak")
                 > schedule_data.route_info[r].avg_trip_time \div schedule_data.min_headway
          /\ CellLower(schedule_data, r, "night")
                 <= schedule_data.route_info[r].avg_trip_time \div schedule_data.min_headway
    /\ SumOver([c \in Cells(schedule_data) |-> CellLower(schedule_data, c[1], c[2])],
               Cells(schedule_data)) <= max_fleet_size

\* C26: in a pipeline run every optimize_route call of the route step
\* receives the predicted demands of the route's stops (the mean per stop,
\* 10 for a stop without prediction), not the random estimate.
C26_PredictedDemandsUsed ==
    (ppc # "idle" /\ rpc = "done" /\ net_i > 1) =>
        route_in.demands = predicted_demands(net_in.routes[net_i - 1])

\* C29: for every route optimize_network solves, the optimized distance is
\* at most the original distance, so that neither a route's saving nor
\* total_distance_saved_km is negative.
C29_SavedNeverNegative ==
    npc = "done" =>
        /\ \A k \in DOMAIN net_out.optimized_routes :
              10 * net_out.optimized_routes[k].total_distance_km
                  <= calculate_route_distance(RowStops(net_in.routes[k]))
        /\ net_out.total_distance_saved_km >= 0

\* C30: optimize_route returns None whenever the demands of all stops, the
\* depot included, sum to more than vehicle_capacity, also when each stop
\* alone is within capacity; a solution implies that the sum is within
\* capacity.
C30_TotalDemandWithinCapacity ==
    rpc = "done" =>
        LET n     == Len(route_in.stops)
            total == SumOver(route_in.demands, 1..n)
        IN  /\ total > route_in.vehicle_capacity => route_out.ret = "None"
            /\ route_out.ret = "solution" => total <= route_in.vehicle_capacity

\* a finished call for two stops, each within capacity, together above it,
\* with route time to spare
C30_Witness ==
    /\ rpc = "done"
    /\ Len(route_in.stops) = 2
    /\ \A i \in 1..2 : route_in.demands[i] <= route_in.vehicle_capacity
    /\ route_in.demands[1] + route_in.demands[2] > route_in.vehicle_capacity
    /\ route_in.max_route_time = 600
    /\ route_out.ret = "None"

\* C22: once POST /optimize/schedules has answered that the optimization
\* started, the background task eventually stores a schedule result, from
\* when on GET /results/schedules answers 'success' and no longer 'pending'.
C22_ScheduleResultEventuallyStored ==
    (post_answer = "started") ~> (schedule_results # EmptyDict)

\* C23: rollback is idempotent: a rollback_model call that follows a
\* successful one, no version having been registered in between, is
\* skipped: it returns False and changes no version's stage.
C23_RollbackIdempotent ==
    \A i \in 1..Len(call_log) - 1 :
        call_log[i].ret =>
            /\ ~call_log[i + 1].ret
            /\ call_log[i + 1].after = call_log[i + 1].before

\* C24: when no previous version is available (fewer than two versions
\* are in Production or Archived), rollback_model returns False and makes
\* no stage transition: every version keeps its stage.
C24_NoPreviousNoTransition ==
    \A i \in 1..Len(call_log) :
        LET before == call_log[i].before
        IN  Cardinality({v \in DOMAIN before :
                           before[v] \in {"Production", "Archived"}}) < 2
                => /\ ~call_log[i].ret
                   /\ call_log[i].after = before
                   /\ (i = Len(call_log) => stages = before)

\* a call made while one version is in Production and none is Archived
C24_Witness ==
    /\ call_log # <<>>
    /\ LET before == call_log[Len(call_log)].before
       IN  /\ Cardinality({v \in DOMAIN before : before[v] = "Production"}) = 1
           /\ {v \in DOMAIN before : before[v] = "Archived"} = {}
    /\ ~call_log[Len(call_log)].ret

\* C27: after any sequence of rollback_model calls, failed ones included,
\* exactly one version is in Production, given that exactly one was before
\* the first call.
C27_ExactlyOneInProduction ==
    LET first == IF call_log = <<>> THEN stages ELSE call_log[1].before
    IN  Cardinality({v \in DOMAIN first : first[v] = "Production"}) = 1
            => Cardinality({v \in DOMAIN stages : stages[v] = "Production"}) = 1

\* C28: whenever rollback_model returns True, the version it promoted to
\* Production differs from the version that was in Production when the
\* call began.
C28_PromotedDiffersFromCurrent ==
    \A i \in 1..Len(call_log) :
        call_log[i].ret => call_log[i].previous # call_log[i].current

====
